---- MODULE Spec2Model ----
(***************************************************************************)
(* Checkpoints (src/src/checkpoints.cpp): the compiled-in per-network      *)
(* tables of (height, hash) pairs, the fEnabled switch, and the four       *)
(* operations CheckBlock, GuessVerificationProgress,                       *)
(* GetTotalBlocksEstimate and GetLastCheckpoint.                           *)
(*                                                                         *)
(* uint256 values are modelled by their hexadecimal text.  A double is     *)
(* modelled by an exact rational [kind |-> "num", n, d] in lowest terms    *)
(* with d > 0, or by the IEEE-754 special results of a division by zero,   *)
(* [kind |-> "nan"] and [kind |-> "inf"]; rounding is not modelled.        *)
(***************************************************************************)
EXTENDS Integers, FiniteSets, Sequences, TLC

VARIABLES
    fEnabled,               \* bool Checkpoints::fEnabled
    networkID,              \* Params().NetworkID()
    mapCheckpoints,         \* static MapCheckpoints mapCheckpoints
    mapCheckpointsTestnet,  \* static MapCheckpoints mapCheckpointsTestnet
    mapCheckpointsRegtest,  \* static MapCheckpoints mapCheckpointsRegtest
    mapBlockIndex,          \* the caller's std::map<uint256, CBlockIndex*>
    call,                   \* the last call: operation, arguments, values read
    ret                     \* the value that call returned

vars == <<fEnabled, networkID, mapCheckpoints, mapCheckpointsTestnet,
          mapCheckpointsRegtest, mapBlockIndex, call, ret>>

maps == <<mapCheckpoints, mapCheckpointsTestnet, mapCheckpointsRegtest>>

----------------------------------------------------------------------------
(* Bounds of the explored inputs *)

\* most entries a block-index directory holds
MaxIndexSize == 2
\* heights probed lie at most this far above a pinned height
MaxHeightOffset == 1
\* transaction counts probed lie at most this far from a checkpoint count
MaxTxDelta == 1
\* clock values and block times lie at most this many days from a
\* last-checkpoint time
MaxDays == 1

----------------------------------------------------------------------------
(* Compiled-in data *)

SIGCHECK_VERIFICATION_FACTOR == 5

SecondsPerDay == 86400

MainTable ==
    (0 :> "0x00000f639db5734b2b861ef8dbccc33aebd7de44d13de000a12d093bcc866c64") @@
    (6143 :> "0x0000000026fb51f5bc9943ed69d9ff7697ecf7fed419d88b417655f93a487ce1") @@
    (12797 :> "0x000000002c29644e179baa188fa6b9b9454721f1f21f2b9f31eebe9acc1a31db") @@
    (30092 :> "0x0000000098a23e1c503f71a6d61c333c5abaabb4c5fa1b474012e004db4bfbbe") @@
    (80998 :> "0x000000010ebcfe9a00a99f2b61104f4a141555a707f1c007aba8a978f6030cfb") @@
    (144759 :> "0x000000047e7b7bfd63b4f019a0a24c8d65b10afa6eb80721e10fa7c49ce6fb6e") @@
    (189046 :> "0x00000000bd507c435b46ee8a13b25b85ec38fdb0eb5b00faeaa0611cd6a483d3") @@
    (277316 :> "0x00000016a20503fe496e79d34fb85c33f633059315c046ffa1b4826d08a1e856") @@
    (483849 :> "0x000001eb7f8124282ab62296e63d3145ff6c84cf18afae4d4b8e02cd3182b6a8") @@
    (1066428 :> "0x000000012dc5256d977b50270d1ca5642726308dcf26b6c219985edb8f2ab8f6")

TestnetTable ==
    (0 :> "0x0000082f5939c2154dbcba35f784530d12e9d72472fcfaf29674ea312cdf4c83")

RegtestTable ==
    (0 :> "0x000008ca1832a4baf228eb1553c03d3a2c8e02399550dd6ea8d65cec3ef23d2e")

\* const CCheckpointData data (the map pointer is dereferenced)
data ==
    [mapCheckpoints |-> mapCheckpoints,
     nTimeLastCheckpoint |-> 1490629503,
     nTransactionsLastCheckpoint |-> 1179921,
     fTransactionsPerDay |-> 960]

dataTestnet ==
    [mapCheckpoints |-> mapCheckpointsTestnet,
     nTimeLastCheckpoint |-> 1388868139,
     nTransactionsLastCheckpoint |-> 0,
     fTransactionsPerDay |-> 960]

dataRegtest ==
    [mapCheckpoints |-> mapCheckpointsRegtest,
     nTimeLastCheckpoint |-> 0,
     nTransactionsLastCheckpoint |-> 0,
     fTransactionsPerDay |-> 0]

Networks == {"MAIN", "TESTNET", "REGTEST"}

\* faulty variant: the selector's branches return each other's profile
Checkpoints_Swapped ==
    IF networkID = "TESTNET" THEN data
    ELSE IF networkID = "MAIN" THEN dataTestnet
    ELSE dataRegtest

\* const CCheckpointData &Checkpoints()
Checkpoints ==
    IF networkID = "TESTNET" THEN dataTestnet
    ELSE IF networkID = "MAIN" THEN data
    ELSE dataRegtest

----------------------------------------------------------------------------
(* Values *)

NULL == [null |-> TRUE]

\* ret while no call has returned
NoValue == [none |-> TRUE]

Range(f) == {f[x] : x \in DOMAIN f}

Max(S) == CHOOSE x \in S : \A y \in S : y <= x

Min(S) == CHOOSE x \in S : \A y \in S : x <= y

Abs(x) == IF x < 0 THEN -x ELSE x

RECURSIVE GCD(_, _)
GCD(a, b) == IF b = 0 THEN a ELSE GCD(b, a % b)

\* the rational n/d, d # 0, in lowest terms with a positive denominator
Norm(n, d) ==
    LET g == GCD(Abs(n), Abs(d))
        s == IF d < 0 THEN -1 ELSE 1
    IN  [kind |-> "num", n |-> s * (n \div g), d |-> s * (d \div g)]

\* conversion of an integer to double
ToDouble(i) == [kind |-> "num", n |-> i, d |-> 1]

DAdd(a, b) == Norm(a.n * b.d + b.n * a.d, a.d * b.d)

DMul(a, b) ==
    IF a.n = 0 \/ b.n = 0 THEN ToDouble(0)
    ELSE LET g1 == GCD(Abs(a.n), b.d)
             g2 == GCD(Abs(b.n), a.d)
         IN  Norm((a.n \div g1) * (b.n \div g2), (a.d \div g2) * (b.d \div g1))

\* double division: x/0 is NaN for x = 0 and an infinity of x's sign
\* otherwise
DDiv(a, b) ==
    IF b.n = 0
    THEN IF a.n = 0 THEN [kind |-> "nan"]
         ELSE [kind |-> "inf", sign |-> IF a.n < 0 THEN -1 ELSE 1]
    ELSE DMul(a, Norm(b.d, b.n))

\* a/b < c/d for b > 0, d > 0, by continued-fraction expansion
RECURSIVE FracLess(_, _, _, _)
FracLess(a, b, c, d) ==
    LET q1 == a \div b
        q2 == c \div d
        r1 == a % b
        r2 == c % d
    IN  IF q1 # q2 THEN q1 < q2
        ELSE IF r2 = 0 THEN FALSE
        ELSE IF r1 = 0 THEN TRUE
        ELSE FracLess(d, r2, b, r1)

\* x <= y on doubles: false when either is NaN
DLeq(x, y) ==
    IF x.kind = "nan" \/ y.kind = "nan" THEN FALSE
    ELSE IF x.kind = "inf" THEN (x.sign = -1 \/ (y.kind = "inf" /\ y.sign = 1))
    ELSE IF y.kind = "inf" THEN y.sign = 1
    ELSE ~FracLess(y.n, y.d, x.n, x.d)

----------------------------------------------------------------------------
(* Inputs *)

PinnedHeights == DOMAIN MainTable \cup DOMAIN TestnetTable \cup DOMAIN RegtestTable

PinnedHashes == Range(MainTable) \cup Range(TestnetTable) \cup Range(RegtestTable)

ZeroHash == "0x0000000000000000000000000000000000000000000000000000000000000000"

\* a hash no table pins
UnpinnedHash == "0x00000000839a8e6886ab5951d76f411475428afc90947ee320161bbf18eb6048"

Hashes == PinnedHashes \cup {ZeroHash, UnpinnedHash}

\* hashes of the blocks a block-index directory may hold
IndexedHashes ==
    {MainTable[0], MainTable[12797], MainTable[1066428],
     TestnetTable[0], RegtestTable[0], UnpinnedHash}

Heights == {h + o : h \in PinnedHeights, o \in 0..MaxHeightOffset}

CheckpointTimes ==
    {data.nTimeLastCheckpoint, dataTestnet.nTimeLastCheckpoint,
     dataRegtest.nTimeLastCheckpoint}

CheckpointTxCounts ==
    {data.nTransactionsLastCheckpoint, dataTestnet.nTransactionsLastCheckpoint,
     dataRegtest.nTransactionsLastCheckpoint}

\* values of time(NULL) and of CBlockIndex::nTime: whole days around the
\* active profile's last-checkpoint time, and the other profiles' times
Times ==
    {t \in {Checkpoints.nTimeLastCheckpoint + k * SecondsPerDay :
                k \in (-MaxDays)..MaxDays} \cup CheckpointTimes :
        t >= 0}

\* values of CBlockIndex::nChainTx
TxCounts ==
    {n \in {c + k : c \in CheckpointTxCounts, k \in (-MaxTxDelta)..MaxTxDelta} :
        n >= 0}

\* CBlockIndex objects as GuessVerificationProgress reads them
BlockIndexes == [nChainTx : TxCounts, nTime : Times]

\* the CBlockIndex object the directory holds for a hash
IndexNode(hash) == [phashBlock |-> hash]

Directories ==
    {[h \in S |-> IndexNode(h)] :
        S \in {T \in SUBSET IndexedHashes : Cardinality(T) <= MaxIndexSize}}

----------------------------------------------------------------------------
(* Operations *)

\* faulty variant: a pinned height accepts any hash
CheckBlock_AnyHash(nHeight, hash) ==
    IF ~fEnabled THEN TRUE
    ELSE LET checkpoints == Checkpoints.mapCheckpoints
         IN  IF nHeight \notin DOMAIN checkpoints THEN TRUE
             ELSE hash \in Range(checkpoints)

\* bool CheckBlock(int nHeight, const uint256& hash)
CheckBlock(nHeight, hash) ==
    IF ~fEnabled THEN TRUE
    ELSE LET checkpoints == Checkpoints.mapCheckpoints
         IN  IF nHeight \notin DOMAIN checkpoints THEN TRUE
             ELSE hash = checkpoints[nHeight]

\* faulty variant: the case split is nChainTx < nTransactionsLastCheckpoint
GuessVerificationProgress_StrictSplit(pindex, fSigchecks, nNow) ==
    IF pindex = NULL THEN ToDouble(0)
    ELSE
    LET fSigcheckVerificationFactor ==
            IF fSigchecks THEN ToDouble(SIGCHECK_VERIFICATION_FACTOR) ELSE ToDouble(1)
        d == Checkpoints
        work ==
            IF pindex.nChainTx < d.nTransactionsLastCheckpoint
            THEN LET nCheapBefore == ToDouble(pindex.nChainTx)
                     nCheapAfter ==
                         ToDouble(d.nTransactionsLastCheckpoint - pindex.nChainTx)
                     nExpensiveAfter ==
                         DMul(DDiv(ToDouble(nNow - d.nTimeLastCheckpoint),
                                   ToDouble(SecondsPerDay)),
                              ToDouble(d.fTransactionsPerDay))
                 IN  [fWorkBefore |-> nCheapBefore,
                      fWorkAfter |->
                          DAdd(nCheapAfter,
                               DMul(nExpensiveAfter, fSigcheckVerificationFactor))]
            ELSE LET nCheapBefore == ToDouble(d.nTransactionsLastCheckpoint)
                     nExpensiveBefore ==
                         ToDouble(pindex.nChainTx - d.nTransactionsLastCheckpoint)
                     nExpensiveAfter ==
                         DMul(DDiv(ToDouble(nNow - pindex.nTime),
                                   ToDouble(SecondsPerDay)),
                              ToDouble(d.fTransactionsPerDay))
                 IN  [fWorkBefore |->
                          DAdd(nCheapBefore,
                               DMul(nExpensiveBefore, fSigcheckVerificationFactor)),
                      fWorkAfter |->
                          DMul(nExpensiveAfter, fSigcheckVerificationFactor)]
    IN  DDiv(work.fWorkBefore, DAdd(work.fWorkBefore, work.fWorkAfter))

\* faulty variant: the work before a ref past the checkpoint leaves out the cheap part
GuessVerificationProgress_NoCheapBefore(pindex, fSigchecks, nNow) ==
    IF pindex = NULL THEN ToDouble(0)
    ELSE
    LET fSigcheckVerificationFactor ==
            IF fSigchecks THEN ToDouble(SIGCHECK_VERIFICATION_FACTOR) ELSE ToDouble(1)
        d == Checkpoints
        work ==
            IF pindex.nChainTx <= d.nTransactionsLastCheckpoint
            THEN LET nCheapBefore == ToDouble(pindex.nChainTx)
                     nCheapAfter ==
                         ToDouble(d.nTransactionsLastCheckpoint - pindex.nChainTx)
                     nExpensiveAfter ==
                         DMul(DDiv(ToDouble(nNow - d.nTimeLastCheckpoint),
                                   ToDouble(SecondsPerDay)),
                              ToDouble(d.fTransactionsPerDay))
                 IN  [fWorkBefore |-> nCheapBefore,
                      fWorkAfter |->
                          DAdd(nCheapAfter,
                               DMul(nExpensiveAfter, fSigcheckVerificationFactor))]
            ELSE LET nCheapBefore == ToDouble(d.nTransactionsLastCheckpoint)
                     nExpensiveBefore ==
                         ToDouble(pindex.nChainTx - d.nTransactionsLastCheckpoint)
                     nExpensiveAfter ==
                         DMul(DDiv(ToDouble(nNow - pindex.nTime),
                                   ToDouble(SecondsPerDay)),
                              ToDouble(d.fTransactionsPerDay))
                 IN  [fWorkBefore |->
                          DMul(nExpensiveBefore, fSigcheckVerificationFactor),
                      fWorkAfter |->
                          DMul(nExpensiveAfter, fSigcheckVerificationFactor)]
    IN  DDiv(work.fWorkBefore, DAdd(work.fWorkBefore, work.fWorkAfter))

\* double GuessVerificationProgress(CBlockIndex *pindex, bool fSigchecks);
\* nNow is the value time(NULL) returns
GuessVerificationProgress(pindex, fSigchecks, nNow) ==
    IF pindex = NULL THEN ToDouble(0)
    ELSE
    LET fSigcheckVerificationFactor ==
            IF fSigchecks THEN ToDouble(SIGCHECK_VERIFICATION_FACTOR) ELSE ToDouble(1)
        d == Checkpoints
        work ==
            IF pindex.nChainTx <= d.nTransactionsLastCheckpoint
            THEN LET nCheapBefore == ToDouble(pindex.nChainTx)
                     nCheapAfter ==
                         ToDouble(d.nTransactionsLastCheckpoint - pindex.nChainTx)
                     nExpensiveAfter ==
                         DMul(DDiv(ToDouble(nNow - d.nTimeLastCheckpoint),
                                   ToDouble(SecondsPerDay)),
                              ToDouble(d.fTransactionsPerDay))
                 IN  [fWorkBefore |-> nCheapBefore,
                      fWorkAfter |->
                          DAdd(nCheapAfter,
                               DMul(nExpensiveAfter, fSigcheckVerificationFactor))]
            ELSE LET nCheapBefore == ToDouble(d.nTransactionsLastCheckpoint)
                     nExpensiveBefore ==
                         ToDouble(pindex.nChainTx - d.nTransactionsLastCheckpoint)
                     nExpensiveAfter ==
                         DMul(DDiv(ToDouble(nNow - pindex.nTime),
                                   ToDouble(SecondsPerDay)),
                              ToDouble(d.fTransactionsPerDay))
                 IN  [fWorkBefore |->
                          DAdd(nCheapBefore,
                               DMul(nExpensiveBefore, fSigcheckVerificationFactor)),
                      fWorkAfter |->
                          DMul(nExpensiveAfter, fSigcheckVerificationFactor)]
    IN  DDiv(work.fWorkBefore, DAdd(work.fWorkBefore, work.fWorkAfter))

\* faulty variant: begin() in place of rbegin()
GetTotalBlocksEstimate_Begin ==
    IF ~fEnabled THEN 0
    ELSE LET checkpoints == Checkpoints.mapCheckpoints
         IN  Min(DOMAIN checkpoints)

\* int GetTotalBlocksEstimate(): checkpoints.rbegin()->first is the key of
\* the last entry of the ordered map
GetTotalBlocksEstimate ==
    IF ~fEnabled THEN 0
    ELSE LET checkpoints == Checkpoints.mapCheckpoints
         IN  Max(DOMAIN checkpoints)

\* faulty variant: BOOST_FOREACH, least key first
RECURSIVE ReverseScan_Forward(_, _, _)
ReverseScan_Forward(checkpoints, todo, index) ==
    IF todo = {} THEN NULL
    ELSE LET i == Min(todo)
             hash == checkpoints[i]
         IN  IF hash \in DOMAIN index THEN index[hash]
             ELSE ReverseScan_Forward(checkpoints, todo \ {i}, index)

\* BOOST_REVERSE_FOREACH over the entries of checkpoints whose keys are in
\* todo, greatest key first
RECURSIVE ReverseScan(_, _, _)
ReverseScan(checkpoints, todo, index) ==
    IF todo = {} THEN NULL
    ELSE LET i == Max(todo)
             hash == checkpoints[i]
         IN  IF hash \in DOMAIN index THEN index[hash]
             ELSE ReverseScan(checkpoints, todo \ {i}, index)

\* faulty variant: the fEnabled test is missing
GetLastCheckpoint_NoEnabledTest(index) ==
    LET checkpoints == Checkpoints.mapCheckpoints
    IN  ReverseScan(checkpoints, DOMAIN checkpoints, index)

\* CBlockIndex* GetLastCheckpoint(const std::map<uint256, CBlockIndex*>&)
GetLastCheckpoint(index) ==
    IF ~fEnabled THEN NULL
    ELSE LET checkpoints == Checkpoints.mapCheckpoints
         IN  ReverseScan(checkpoints, DOMAIN checkpoints, index)

----------------------------------------------------------------------------
(* The state machine *)

Init ==
    /\ fEnabled = TRUE
    /\ networkID \in Networks
    /\ mapCheckpoints = MainTable
    /\ mapCheckpointsTestnet = TestnetTable
    /\ mapCheckpointsRegtest = RegtestTable
    /\ mapBlockIndex \in Directories
    /\ call = [op |-> "none"]
    /\ ret = NoValue

\* an operational control path assigns Checkpoints::fEnabled
SetEnabled ==
    /\ \E b \in BOOLEAN : fEnabled' = b
    /\ UNCHANGED <<networkID, maps, mapBlockIndex, call, ret>>

\* faulty variant: the lookup is checkpoints[nHeight], which inserts a zero hash
\* under a height that is no key
CheckBlockCall_SubscriptInserts ==
    /\ call.op = "none"
    /\ \E nHeight \in Heights, hash \in Hashes :
           LET checkpoints == Checkpoints.mapCheckpoints
               inserted == IF fEnabled /\ nHeight \notin DOMAIN checkpoints
                           THEN checkpoints @@ (nHeight :> ZeroHash)
                           ELSE checkpoints
           IN  /\ call' = [op |-> "CheckBlock", fEnabled |-> fEnabled,
                           nHeight |-> nHeight, hash |-> hash]
               /\ ret' = [bool |-> (~fEnabled \/ hash = inserted[nHeight])]
               /\ mapCheckpoints' =
                      IF networkID = "MAIN" THEN inserted ELSE mapCheckpoints
               /\ mapCheckpointsTestnet' =
                      IF networkID = "TESTNET" THEN inserted ELSE mapCheckpointsTestnet
               /\ mapCheckpointsRegtest' =
                      IF networkID \notin {"MAIN", "TESTNET"} THEN inserted
                      ELSE mapCheckpointsRegtest
               /\ UNCHANGED <<fEnabled, networkID, mapBlockIndex>>

CheckBlockCall ==
    /\ call.op = "none"
    /\ \E nHeight \in Heights, hash \in Hashes :
           /\ call' = [op |-> "CheckBlock", fEnabled |-> fEnabled,
                    nHeight |-> nHeight, hash |-> hash]
           /\ ret' = [bool |-> CheckBlock(nHeight, hash)]
           /\ UNCHANGED <<fEnabled, networkID, maps, mapBlockIndex>>

GuessVerificationProgressCall ==
    /\ call.op = "none"
    /\ \E pindex \in BlockIndexes \cup {NULL}, fSigchecks \in BOOLEAN, nNow \in Times :
           /\ call' = [op |-> "GuessVerificationProgress", fEnabled |-> fEnabled,
                    pindex |-> pindex, fSigchecks |-> fSigchecks, nNow |-> nNow]
           /\ ret' = [double |-> GuessVerificationProgress(pindex, fSigchecks, nNow)]
           /\ UNCHANGED <<fEnabled, networkID, maps, mapBlockIndex>>

GetTotalBlocksEstimateCall ==
    /\ call.op = "none"
    /\ call' = [op |-> "GetTotalBlocksEstimate", fEnabled |-> fEnabled]
    /\ ret' = [int |-> GetTotalBlocksEstimate]
    /\ UNCHANGED <<fEnabled, networkID, maps, mapBlockIndex>>

GetLastCheckpointCall ==
    /\ call.op = "none"
    /\ call' = [op |-> "GetLastCheckpoint", fEnabled |-> fEnabled]
    /\ ret' = [ptr |-> GetLastCheckpoint(mapBlockIndex)]
    /\ UNCHANGED <<fEnabled, networkID, maps, mapBlockIndex>>

\* the caller takes the returned value; the next call can start
Return ==
    /\ call.op # "none"
    /\ call' = [op |-> "none"]
    /\ ret' = NoValue
    /\ UNCHANGED <<fEnabled, networkID, maps, mapBlockIndex>>

Next ==
    \/ SetEnabled
    \/ CheckBlockCall
    \/ GuessVerificationProgressCall
    \/ GetTotalBlocksEstimateCall
    \/ GetLastCheckpointCall
    \/ Return

Spec == Init /\ [][Next]_vars

----------------------------------------------------------------------------
(* Properties *)

Returned(op) == call.op = op

HashAt(nHeight) == MainTable[nHeight]

\* C1: with fEnabled true, CheckBlock returns true for a height that is not
\* a key of the active table, and for a key it returns true exactly when the
\* hash is the pinned one.
C1_CheckBlockPinned ==
    (Returned("CheckBlock") /\ call.fEnabled) =>
        LET checkpoints == Checkpoints.mapCheckpoints
        IN  /\ call.nHeight \notin DOMAIN checkpoints => ret.bool = TRUE
            /\ call.nHeight \in DOMAIN checkpoints =>
                   ret.bool = (call.hash = checkpoints[call.nHeight])

C1_Witness ==
    /\ Returned("CheckBlock") /\ call.fEnabled
    /\ call.nHeight \in DOMAIN Checkpoints.mapCheckpoints
    /\ call.nHeight > 0
    /\ call.hash \in PinnedHashes
    /\ ret.bool = FALSE

\* C2: with fEnabled false, CheckBlock returns true, GetLastCheckpoint
\* returns NULL and GetTotalBlocksEstimate returns 0, whatever the tables and
\* the directory hold.
C2_DisabledIsPermissive ==
    (call.op # "none" /\ ~call.fEnabled) =>
        /\ Returned("CheckBlock") => ret.bool = TRUE
        /\ Returned("GetLastCheckpoint") => ret.ptr = NULL
        /\ Returned("GetTotalBlocksEstimate") => ret.int = 0

C2_Witness ==
    /\ Returned("GetLastCheckpoint") /\ ~call.fEnabled
    /\ \E h \in DOMAIN Checkpoints.mapCheckpoints :
           Checkpoints.mapCheckpoints[h] \in DOMAIN mapBlockIndex
    /\ ret.ptr = NULL

\* C3: with fEnabled true, GetLastCheckpoint returns the directory entry of
\* the highest checkpoint whose hash is a key of the directory, and NULL
\* exactly when no checkpoint hash is a key; a directory holding only the
\* hashes of heights 0 and 12797 of Main yields the height-12797 entry.
C3_LastCheckpointIsHighestKnown ==
    (Returned("GetLastCheckpoint") /\ call.fEnabled) =>
        LET checkpoints == Checkpoints.mapCheckpoints
            known == {h \in DOMAIN checkpoints : checkpoints[h] \in DOMAIN mapBlockIndex}
        IN  /\ known # {} =>
                   \E h \in known :
                       /\ \A g \in known : g <= h
                       /\ ret.ptr = mapBlockIndex[checkpoints[h]]
            /\ (ret.ptr = NULL) <=> (known = {})
            /\ (networkID = "MAIN" /\ DOMAIN mapBlockIndex = {HashAt(0), HashAt(12797)}) =>
                   ret.ptr = IndexNode(HashAt(12797))

C3_Witness ==
    /\ Returned("GetLastCheckpoint") /\ call.fEnabled
    /\ networkID = "MAIN"
    /\ DOMAIN mapBlockIndex = {HashAt(0), HashAt(12797)}
    /\ ret.ptr = IndexNode(HashAt(12797))

InUnitInterval(x) == x.kind = "num" /\ 0 <= x.n /\ x.n <= x.d

\* C4: GuessVerificationProgress returns a value in [0,1] for every present
\* ref, either fSigchecks, every network and every value of the clock.
C4_ProgressInUnitInterval ==
    (Returned("GuessVerificationProgress") /\ call.pindex # NULL) =>
        InUnitInterval(ret.double)

\* C5: GuessVerificationProgress never returns the result of a division by
\* a zero fWorkBefore + fWorkAfter: every returned value is a number.
C5_DivisionGuarded ==
    Returned("GuessVerificationProgress") => ret.double.kind = "num"

InCaseB(pindex) == pindex.nChainTx > Checkpoints.nTransactionsLastCheckpoint

\* the block times of two refs are those of one sane chain: past the last
\* checkpoint they lie between the checkpoint time and the clock and do not
\* decrease with the transaction count
TimesOrdered(p1, p2, nNow) ==
    /\ nNow > Checkpoints.nTimeLastCheckpoint
    /\ \A p \in {p1, p2} :
           InCaseB(p) => (Checkpoints.nTimeLastCheckpoint <= p.nTime /\ p.nTime <= nNow)
    /\ (InCaseB(p1) /\ InCaseB(p2)) => p1.nTime <= p2.nTime

\* C6 as stated: with the clock held fixed and a rate above 0, progress is
\* non-decreasing in nChainTx for any two refs.
C6_MonotoneAnyRefs ==
    (/\ Returned("GuessVerificationProgress") /\ call.pindex # NULL
     /\ Checkpoints.fTransactionsPerDay > 0) =>
        \A p2 \in BlockIndexes :
            call.pindex.nChainTx <= p2.nChainTx =>
                DLeq(ret.double, GuessVerificationProgress(p2, call.fSigchecks, call.nNow))

\* C6 fails with every value in [0,1] and the clock after both block times:
\* a ref past the checkpoint whose block time is the clock's has progress 1,
\* a ref with more transactions and an older block time has less.
C6_OlderBlockTimeLowers ==
    /\ Returned("GuessVerificationProgress") /\ call.pindex # NULL
    /\ Checkpoints.fTransactionsPerDay > 0
    /\ InCaseB(call.pindex)
    /\ call.pindex.nTime = call.nNow
    /\ InUnitInterval(ret.double)
    /\ \E p2 \in BlockIndexes :
           LET progress2 == GuessVerificationProgress(p2, call.fSigchecks, call.nNow)
           IN  /\ call.pindex.nChainTx < p2.nChainTx
               /\ Checkpoints.nTimeLastCheckpoint <= p2.nTime
               /\ p2.nTime < call.nNow
               /\ InUnitInterval(progress2)
               /\ ~DLeq(ret.double, progress2)

\* C6 amended: with the clock held fixed after the last-checkpoint time and
\* a rate above 0, progress is non-decreasing in nChainTx for two refs whose
\* block times, where nChainTx exceeds the checkpoint count, lie between the
\* checkpoint time and the clock and do not decrease with nChainTx.
C6_MonotoneOrderedTimes ==
    (/\ Returned("GuessVerificationProgress") /\ call.pindex # NULL
     /\ Checkpoints.fTransactionsPerDay > 0) =>
        \A p2 \in BlockIndexes :
            (/\ call.pindex.nChainTx <= p2.nChainTx
             /\ TimesOrdered(call.pindex, p2, call.nNow)) =>
                DLeq(ret.double, GuessVerificationProgress(p2, call.fSigchecks, call.nNow))

C6_Witness ==
    /\ Returned("GuessVerificationProgress") /\ call.pindex # NULL
    /\ Checkpoints.fTransactionsPerDay > 0
    /\ ~InCaseB(call.pindex) /\ call.pindex.nChainTx > 0
    /\ \E p2 \in BlockIndexes :
           /\ InCaseB(p2)
           /\ TimesOrdered(call.pindex, p2, call.nNow)
           /\ p2.nTime < call.nNow
           /\ ret.double # GuessVerificationProgress(p2, call.fSigchecks, call.nNow)

\* workBefore / (workBefore + workAfter) of the cost model, with
\* F the cost factor, Tc, tc, R the profile's last-checkpoint transaction
\* count, time and rate
CostModel(txCount, refTime, now, F, Tc, tc, R) ==
    LET perDay(seconds) ==
            DMul(DMul(DDiv(ToDouble(seconds), ToDouble(86400)), ToDouble(R)),
                 ToDouble(F))
        workBefore ==
            IF txCount <= Tc THEN ToDouble(txCount)
            ELSE ToDouble(Tc + (txCount - Tc) * F)
        workAfter ==
            IF txCount <= Tc THEN DAdd(ToDouble(Tc - txCount), perDay(now - tc))
            ELSE perDay(now - refTime)
    IN  DDiv(workBefore, DAdd(workBefore, workAfter))

\* C7: GuessVerificationProgress is exactly 0.0 for an absent ref and
\* otherwise workBefore/(workBefore+workAfter) of the cost model, F = 5 with
\* fSigchecks and 1 without; at nChainTx = Tc and now = tc that is Tc/(Tc+0).
C7_ProgressIsCostModel ==
    Returned("GuessVerificationProgress") =>
        LET d == Checkpoints
            F == IF call.fSigchecks THEN 5 ELSE 1
        IN  IF call.pindex = NULL THEN ret.double = [kind |-> "num", n |-> 0, d |-> 1]
            ELSE /\ ret.double = CostModel(call.pindex.nChainTx, call.pindex.nTime, call.nNow,
                                           F, d.nTransactionsLastCheckpoint,
                                    d.nTimeLastCheckpoint, d.fTransactionsPerDay)
                 /\ (/\ call.pindex.nChainTx = d.nTransactionsLastCheckpoint
                     /\ call.nNow = d.nTimeLastCheckpoint) =>
                        ret.double = DDiv(ToDouble(d.nTransactionsLastCheckpoint),
                                   ToDouble(d.nTransactionsLastCheckpoint + 0))

C7_Witness ==
    /\ Returned("GuessVerificationProgress") /\ call.pindex # NULL
    /\ networkID = "MAIN"
    /\ call.pindex.nChainTx = Checkpoints.nTransactionsLastCheckpoint
    /\ call.nNow = Checkpoints.nTimeLastCheckpoint
    /\ call.pindex.nTime # Checkpoints.nTimeLastCheckpoint
    /\ call.fSigchecks
    /\ ret.double = [kind |-> "num", n |-> 1, d |-> 1]

\* C8: with fEnabled true, GetTotalBlocksEstimate returns the greatest
\* height key of the active table: 1066428 for Main, 0 for Test and Regtest,
\* and no pinned height of that table exceeds it.
C8_TotalBlocksIsHighestKey ==
    (Returned("GetTotalBlocksEstimate") /\ call.fEnabled) =>
        /\ ret.int \in DOMAIN Checkpoints.mapCheckpoints
        /\ \A h \in DOMAIN Checkpoints.mapCheckpoints : h <= ret.int
        /\ ret.int = IF networkID = "MAIN" THEN 1066428 ELSE 0

C8_Witness ==
    /\ Returned("GetTotalBlocksEstimate") /\ call.fEnabled
    /\ networkID = "MAIN"
    /\ ret.int = 1066428

\* the profile each network identifier is to select
ProfileOf(net) ==
    IF net = "MAIN" THEN [table |-> MainTable, size |-> 10, tc |-> 1490629503,
                          Tc |-> 1179921, R |-> 960]
    ELSE IF net = "TESTNET" THEN [table |-> TestnetTable, size |-> 1,
                                  tc |-> 1388868139, Tc |-> 0, R |-> 960]
    ELSE [table |-> RegtestTable, size |-> 1, tc |-> 0, Tc |-> 0, R |-> 0]

\* C9: the active profile is determined by the network identifier alone
\* (Main: the 10-entry table, tc = 1490629503, Tc = 1179921, R = 960; Test
\* and Regtest their own), and every operation's result is the one computed
\* from the selected network's table and constants only.
C9_ProfileFollowsNetwork ==
    LET P == ProfileOf(networkID)
        d == Checkpoints
    IN  /\ d.mapCheckpoints = P.table
        /\ Cardinality(DOMAIN d.mapCheckpoints) = P.size
        /\ d.nTimeLastCheckpoint = P.tc
        /\ d.nTransactionsLastCheckpoint = P.Tc
        /\ d.fTransactionsPerDay = P.R
        /\ (Returned("CheckBlock") /\ call.fEnabled) =>
               ret.bool = (call.nHeight \in DOMAIN P.table => call.hash = P.table[call.nHeight])
        /\ (Returned("GetTotalBlocksEstimate") /\ call.fEnabled) =>
               (ret.int \in DOMAIN P.table /\ \A h \in DOMAIN P.table : h <= ret.int)
        /\ (Returned("GetLastCheckpoint") /\ call.fEnabled /\ ret.ptr # NULL) =>
               ret.ptr.phashBlock \in Range(P.table)
        /\ (Returned("GuessVerificationProgress") /\ call.pindex # NULL) =>
               ret.double = CostModel(call.pindex.nChainTx, call.pindex.nTime, call.nNow,
                               IF call.fSigchecks THEN 5 ELSE 1, P.Tc, P.tc, P.R)

C9_Witness ==
    /\ networkID = "TESTNET"
    /\ Returned("CheckBlock") /\ call.fEnabled
    /\ call.nHeight = 0
    /\ call.hash = MainTable[0]
    /\ ret.bool = FALSE

\* C10: no call changes a checkpoint table, the network, or the caller's
\* block-index directory, and fEnabled changes only in a step of its setter,
\* which is no call and leaves the pending call and result alone.
C10_CallsChangeNothing ==
    [][/\ maps' = maps
       /\ networkID' = networkID
       /\ mapBlockIndex' = mapBlockIndex
       /\ fEnabled' # fEnabled => (call' = call /\ ret' = ret)]_vars

C10_Witness ==
    /\ Returned("CheckBlock") /\ ~call.fEnabled /\ fEnabled
    /\ call.nHeight \notin DOMAIN Checkpoints.mapCheckpoints
    /\ call.hash = ZeroHash
    /\ mapBlockIndex # <<>>

====
